---------------------------- MODULE Spec2Model ----------------------------
(***************************************************************************)
(* zipfnr: ZipProcessor.process_zip and its two process_item variants.     *)
(*                                                                         *)
(* The state is the file system around one archive path (the archive, its  *)
(* ".bak" and its ".tmp", as directory entries naming inodes) and, per     *)
(* invocation, the position in process_zip with its local objects: the     *)
(* open input archive zin (its infolist of ZipInfo items), the open output *)
(* archive zout, and the loop position.                                    *)
(*                                                                         *)
(* Text is a sequence of code points, content a sequence of bytes; UTF-8   *)
(* decoding and encoding and str.replace are computed.                     *)
(***************************************************************************)
EXTENDS Integers, Sequences, FiniteSets, TLC

\* ------------------------------------------------------------- bounds

\* Longest input archive, in entries.
MaxEntries == 2

\* Number of process_zip calls made on one processor object, one after the
\* other.
MaxRuns == 2

\* ------------------------------------------------------------- strings

IsPrefix(s, t) == Len(s) <= Len(t) /\ SubSeq(t, 1, Len(s)) = s

\* str.endswith (zipfnr.py:60): exact, case-sensitive suffix; "" is a suffix
\* of every string.
EndsWith(s, suffix) ==
    /\ Len(suffix) <= Len(s)
    /\ SubSeq(s, Len(s) - Len(suffix) + 1, Len(s)) = suffix

RECURSIVE ReplaceInterleave(_, _)
\* str.replace with an empty search string: the replacement goes before
\* every character and once at the end.
ReplaceInterleave(s, new) ==
    IF s = <<>> THEN new
    ELSE new \o <<Head(s)>> \o ReplaceInterleave(Tail(s), new)

RECURSIVE ReplaceScan(_, _, _)
\* str.replace with a non-empty search string: scan left to right, replace
\* the leftmost occurrence and go on after it (the replacement is not
\* scanned again).
ReplaceScan(s, old, new) ==
    IF Len(s) < Len(old) THEN s
    ELSE IF SubSeq(s, 1, Len(old)) = old
         THEN new \o ReplaceScan(SubSeq(s, Len(old) + 1, Len(s)), old, new)
         ELSE <<Head(s)>> \o ReplaceScan(Tail(s), old, new)

\* A replace that leaves the string alone when the search string is empty.
StrReplaceEmptyNoop(s, old, new) ==
    IF old = <<>> THEN s ELSE ReplaceScan(s, old, new)

\* str.replace(old, new) as called at zipfnr.py:106 and zipfnr.py:130.
StrReplace(s, old, new) ==
    IF old = <<>> THEN ReplaceInterleave(s, new) ELSE ReplaceScan(s, old, new)

\* ------------------------------------------------------------- UTF-8

IsCont(b) == b >= 128 /\ b <= 191

\* The length of the well-formed UTF-8 sequence bs starts with, 0 when it
\* starts with none (bytes.decode("utf-8") is strict: no overlong forms, no
\* surrogates, nothing above U+10FFFF).
Utf8SeqLen(bs) ==
    LET b1 == bs[1]
        n  == Len(bs)
    IN  IF b1 < 128 THEN 1
        ELSE IF b1 >= 194 /\ b1 <= 223
        THEN IF n >= 2 /\ IsCont(bs[2]) THEN 2 ELSE 0
        ELSE IF b1 >= 224 /\ b1 <= 239
        THEN IF /\ n >= 3
                /\ IsCont(bs[2])
                /\ IsCont(bs[3])
                /\ (b1 = 224 => bs[2] >= 160)
                /\ (b1 = 237 => bs[2] <= 159)
             THEN 3 ELSE 0
        ELSE IF b1 >= 240 /\ b1 <= 244
        THEN IF /\ n >= 4
                /\ IsCont(bs[2])
                /\ IsCont(bs[3])
                /\ IsCont(bs[4])
                /\ (b1 = 240 => bs[2] >= 144)
                /\ (b1 = 244 => bs[2] <= 143)
             THEN 4 ELSE 0
        ELSE 0

\* The code point of a well-formed sequence of k bytes at the head of bs.
Utf8CodePoint(bs, k) ==
    IF k = 1 THEN bs[1]
    ELSE IF k = 2 THEN (bs[1] - 192) * 64 + (bs[2] - 128)
    ELSE IF k = 3
    THEN (bs[1] - 224) * 4096 + (bs[2] - 128) * 64 + (bs[3] - 128)
    ELSE (bs[1] - 240) * 262144 + (bs[2] - 128) * 4096
            + (bs[3] - 128) * 64 + (bs[4] - 128)

RECURSIVE Utf8Valid(_)
\* Whether data.decode("utf-8") succeeds (zipfnr.py:105).
Utf8Valid(bs) ==
    IF bs = <<>> THEN TRUE
    ELSE LET k == Utf8SeqLen(bs)
         IN  k > 0 /\ Utf8Valid(SubSeq(bs, k + 1, Len(bs)))

RECURSIVE Utf8Decode(_)
\* data.decode("utf-8") of valid bytes: the code points.
Utf8Decode(bs) ==
    IF bs = <<>> THEN <<>>
    ELSE LET k == Utf8SeqLen(bs)
         IN  <<Utf8CodePoint(bs, k)>> \o Utf8Decode(SubSeq(bs, k + 1, Len(bs)))

\* One code point's bytes.
Utf8EncodeChar(c) ==
    IF c < 128 THEN <<c>>
    ELSE IF c < 2048 THEN <<192 + (c \div 64), 128 + (c % 64)>>
    ELSE IF c < 65536
    THEN <<224 + (c \div 4096), 128 + ((c \div 64) % 64), 128 + (c % 64)>>
    ELSE <<240 + (c \div 262144), 128 + ((c \div 4096) % 64),
           128 + ((c \div 64) % 64), 128 + (c % 64)>>

RECURSIVE Utf8Encode(_)
\* text.encode("utf-8") (zipfnr.py:107).
Utf8Encode(text) ==
    IF text = <<>> THEN <<>>
    ELSE Utf8EncodeChar(Head(text)) \o Utf8Encode(Tail(text))

\* ------------------------------------------------------------- process_item

\* TextReplaceZipProcessor.process_item: decode, replace, encode; the name
\* is returned as it came.  ok is FALSE when the decode raises.
TextProcessItem(data, filename, find_string, replace_string) ==
    IF Utf8Valid(data)
    THEN [ok |-> TRUE,
          data |-> Utf8Encode(StrReplace(Utf8Decode(data), find_string,
                                         replace_string)),
          filename |-> filename]
    ELSE [ok |-> FALSE, data |-> data, filename |-> filename]

\* FilenameReplaceZipProcessor.process_item: the content is returned as it
\* came, never decoded; the replace runs over the whole name.
FilenameProcessItem(data, filename, find_string, replace_string) ==
    [ok |-> TRUE,
     data |-> data,
     filename |-> StrReplace(filename, find_string, replace_string)]

\* self.process_item: the override of the processor's class.
ProcessItem(variant, data, filename, find_string, replace_string) ==
    IF variant = "text"
    THEN TextProcessItem(data, filename, find_string, replace_string)
    ELSE FilenameProcessItem(data, filename, find_string, replace_string)

\* ------------------------------------------------------------- inputs

\* Entry names: "a.t", "aa.t", "a/b.T".
Names == { <<97, 46, 116>>, <<97, 97, 46, 116>>, <<97, 47, 98, 46, 84>> }

\* Entry contents: "aaa", "\xc3\xa9a" (e-acute, a), and "a\xff", which is
\* not UTF-8.
Datas == { <<97, 97, 97>>, <<195, 169, 97>>, <<97, 255>> }

\* Target extensions: ".t" and "".
Exts == { <<46, 116>>, <<>> }

Variants == {"text", "filename"}

\* (find_string, replace_string): ("", "b"), ("aa", "a").
FindReplace == { << <<>>, <<98>> >>, << <<97, 97>>, <<97>> >> }

\* The archives of n entries.  A zip archive may hold a name more than once
\* (ZipFile.writestr warns and writes; the filename variant makes such
\* archives when a rename meets a name that is there).  Every entry has a
\* metadata record (date, compression, attributes) of its own.
ArchivesOfLen(n) ==
    { [i \in 1..n |-> [name |-> ns[i], data |-> ds[i], meta |-> i]] :
        ns \in [1..n -> Names], ds \in [1..n -> Datas] }

Archives == UNION { ArchivesOfLen(n) : n \in 0..MaxEntries }

\* ------------------------------------------------------------- files

\* file_path, self.backup_path (zipfnr.py:39) and file_path + ".tmp"
\* (zipfnr.py:58, zipfnr.py:73).
Paths == {"file", "bak", "tmp"}

\* What a file holds: a complete zip archive (entries and central
\* directory), the entries an open writer has written so far (no central
\* directory yet), or bytes that are neither.
Zip(ents) == [kind |-> "zip", ents |-> ents]
Partial(ents) == [kind |-> "open", ents |-> ents]
Garbled == [kind |-> "garbled", ents |-> <<>>]
Absent == [kind |-> "absent", ents |-> <<>>]

Procs == {1, 2}

VARIABLES
    given,    \* the archive as it was before any call
    fs,       \* path -> inode number, 0 when no file has that name
    ino,      \* inode number -> what the file holds
    pc,       \* per invocation: where process_zip stands
    obj,      \* per processor object: its class and self.target_ext
    args,     \* per invocation: find_string, replace_string
    zin,      \* per invocation: the open input archive and its infolist
    zout,     \* per invocation: the open output archive and what it wrote
    idx,      \* per invocation: items of zin.infolist() done
    orig,     \* per invocation: what file_path held when the call began
    err,      \* per invocation: the exception that ended it, and the step
    swap,     \* per invocation: the swap calls made (os.remove, os.rename)
    run,      \* per processor object: calls of process_zip begun
    call,     \* the last call of process_item by the calls under way
    overlap   \* a call began while another one was under way

vars == <<given, fs, ino, pc, obj, args, zin, zout, idx, orig, err, swap, run, call,
          overlap>>

\* What the file of that name holds.
At(path) == IF fs[path] = 0 THEN Absent ELSE ino[fs[path]]

NoError == [kind |-> "", at |-> ""]
NoZin == [h |-> 0, items |-> <<>>]
NoZout == [h |-> 0, written |-> <<>>]
NoCall == [made |-> FALSE, variant |-> "", find |-> <<>>, repl |-> <<>>,
           data |-> <<>>, filename |-> <<>>, ok |-> FALSE,
           out_data |-> <<>>, out_name |-> <<>>]

\* A free inode number.
NewIno == CHOOSE n \in 1..(Cardinality(DOMAIN ino) + 1) : n \notin DOMAIN ino

Put(f, i, c) == [k \in DOMAIN f \cup {i} |-> IF k = i THEN c ELSE f[k]]

\* The inodes a name or an open handle still refers to; the others are
\* freed.
Live(newFs, newZin, newZout) ==
    ({ newFs[x] : x \in Paths } \cup { newZin[q].h : q \in Procs }
        \cup { newZout[q].h : q \in Procs }) \ {0}

Commit(newFs, newIno, newZin, newZout) ==
    /\ fs' = newFs
    /\ zin' = newZin
    /\ zout' = newZout
    /\ ino' = [i \in Live(newFs, newZin, newZout) \cap DOMAIN newIno |->
                 newIno[i]]

\* open(path, "wb") or "w+b": an existing file is truncated in place, a
\* missing one is created.  The inode and the table with it empty.
Truncated(path) ==
    LET i == IF fs[path] = 0 THEN NewIno ELSE fs[path]
    IN  [i |-> i, fs |-> [fs EXCEPT ![path] = i],
         ino |-> Put(ino, i, Partial(<<>>))]

\* ZipFile.writestr through a handle that has written the entries
\* `written`: the entry's bytes go where the handle stands.  Bytes of
\* another writer that differ from this one's leave a file that is no
\* archive.
WriteStr(c, written, e) ==
    IF c.kind = "open" /\ c.ents = written
    THEN Partial(Append(written, e))
    ELSE IF c.kind = "open" /\ IsPrefix(Append(written, e), c.ents)
    THEN c
    ELSE Garbled

\* ZipFile.close of a write handle: the central directory of what the
\* handle wrote goes behind its entries.
CloseWrite(c, written) ==
    IF c.kind = "open" /\ c.ents = written THEN Zip(written)
    ELSE IF c.kind = "zip" /\ c.ents = written THEN c
    ELSE Garbled

\* ZipFile.getinfo(name): NameToInfo is filled in directory order when the
\* archive is opened, so a name leads to the last item that has it.
NameToInfo(items, name) ==
    CHOOSE j \in 1..Len(items) :
        /\ items[j].orig_filename = name
        /\ \A k \in (j + 1)..Len(items) : items[k].orig_filename # name

Running(q) == pc[q] \notin {"idle", "done", "failed"}

\* ------------------------------------------------------------- process_zip

\* The exception leaves process_zip; the with blocks have closed zin and
\* zout on the way out.
Raise(p, kind) ==
    /\ pc' = [pc EXCEPT ![p] = "failed"]
    /\ err' = [err EXCEPT ![p] = [kind |-> kind, at |-> pc[p]]]
    /\ idx' = [idx EXCEPT ![p] = 0]

\* process_zip(find_string, replace_string) is called on processor p.
BeginCall(p, fr) ==
    /\ pc' = [pc EXCEPT ![p] = "backup"]
    /\ args' = [args EXCEPT ![p] = [find |-> fr[1], repl |-> fr[2]]]
    /\ orig' = [orig EXCEPT ![p] = At("file")]
    /\ err' = [err EXCEPT ![p] = NoError]
    /\ swap' = [swap EXCEPT ![p] = {}]
    /\ idx' = [idx EXCEPT ![p] = 0]
    /\ run' = [run EXCEPT ![p] = run[p] + 1]
    /\ overlap' = (overlap \/ \E q \in Procs \ {p} : Running(q))
    /\ call' = IF \E q \in Procs \ {p} : Running(q) THEN call ELSE NoCall
    /\ UNCHANGED <<given, fs, ino, obj, zin, zout>>

\* One call after the other on the same processor object.
Call(p) ==
    /\ pc[p] \in {"idle", "done", "failed"}
    /\ run[p] < MaxRuns
    /\ \E fr \in FindReplace : BeginCall(p, fr)

\* A copy that leaves an existing backup alone.
BackupKeepExisting(p) ==
    /\ pc[p] = "backup"
    /\ IF fs["file"] = 0
       THEN /\ Raise(p, "FileNotFoundError")
            /\ UNCHANGED <<fs, ino>>
       ELSE /\ IF fs["bak"] # 0
               THEN UNCHANGED <<fs, ino>>
               ELSE LET t == Truncated("bak")
                    IN  Commit(t.fs, Put(t.ino, t.i, At("file")), zin, zout)
            /\ pc' = [pc EXCEPT ![p] = "open"]
            /\ UNCHANGED <<err, idx>>
    /\ UNCHANGED <<given, obj, args, zin, zout, orig, swap, run, call, overlap>>

\* shutil.copy(self.file_path, self.backup_path): the bytes of the archive
\* go into the backup, over whatever a backup of that name held.
Backup(p) ==
    /\ pc[p] = "backup"
    /\ IF fs["file"] = 0
       THEN /\ Raise(p, "FileNotFoundError")
            /\ UNCHANGED <<fs, ino>>
       ELSE /\ LET t == Truncated("bak")
               IN  Commit(t.fs, Put(t.ino, t.i, At("file")), zin, zout)
            /\ pc' = [pc EXCEPT ![p] = "open"]
            /\ UNCHANGED <<err, idx>>
    /\ UNCHANGED <<given, obj, args, zin, zout, orig, swap, run, call, overlap>>

\* zipfile.ZipFile(self.file_path, "r"): the central directory is read into
\* the infolist; a file that is no archive raises.
OpenZin(p) ==
    /\ pc[p] = "open"
    /\ IF fs["file"] = 0
       THEN /\ Raise(p, "FileNotFoundError")
            /\ UNCHANGED <<fs, ino, zin, zout>>
       ELSE IF At("file").kind # "zip"
       THEN /\ Raise(p, "BadZipFile")
            /\ UNCHANGED <<fs, ino, zin, zout>>
       ELSE /\ Commit(fs, ino,
                      [zin EXCEPT ![p] =
                         [h |-> fs["file"],
                          items |-> [i \in 1..Len(At("file").ents) |->
                             [orig_filename |-> At("file").ents[i].name,
                              filename |-> At("file").ents[i].name,
                              meta |-> At("file").ents[i].meta]]]],
                      zout)
            /\ pc' = [pc EXCEPT ![p] = "openout"]
            /\ UNCHANGED <<err, idx>>
    /\ UNCHANGED <<given, obj, args, orig, swap, run, call, overlap>>

\* An output archive opened at file_path itself.
OpenZoutInPlace(p) ==
    /\ pc[p] = "openout"
    /\ LET t == Truncated("file")
       IN  Commit(t.fs, t.ino, zin,
                  [zout EXCEPT ![p] = [h |-> t.i, written |-> <<>>]])
    /\ pc' = [pc EXCEPT ![p] = "loop"]
    /\ idx' = [idx EXCEPT ![p] = 0]
    /\ UNCHANGED <<given, obj, args, orig, err, swap, run, call, overlap>>

\* zipfile.ZipFile(f"{self.file_path}.tmp", "w"): the temporary file is
\* created, or emptied when one is there.
OpenZout(p) ==
    /\ pc[p] = "openout"
    /\ LET t == Truncated("tmp")
       IN  Commit(t.fs, t.ino, zin,
                  [zout EXCEPT ![p] = [h |-> t.i, written |-> <<>>]])
    /\ pc' = [pc EXCEPT ![p] = "loop"]
    /\ idx' = [idx EXCEPT ![p] = 0]
    /\ UNCHANGED <<given, obj, args, orig, err, swap, run, call, overlap>>

\* zin.read(item.filename): the content of the item the name leads to.
ZinRead(p, name) ==
    ino[zin[p].h].ents[NameToInfo(zin[p].items, name)].data

\* One turn of the loop over zin.infolist() (zipfnr.py:59-67): the item's
\* content is read by name; an item whose name ends with the target
\* extension goes through process_item, which may rename it; the item,
\* with its metadata, and the content are written to zout.  An exception
\* closes both archives on its way out.
Item(p) ==
    /\ pc[p] = "loop"
    /\ idx[p] < Len(zin[p].items)
    /\ LET k == idx[p] + 1
           item == zin[p].items[k]
           src == ino[zin[p].h]
           readable == src.kind = "zip" /\ Len(src.ents) = Len(zin[p].items)
           matched == EndsWith(item.filename, obj[p].target_ext)
           data == IF readable THEN ZinRead(p, item.filename) ELSE <<>>
           res == IF matched
                  THEN ProcessItem(obj[p].variant, data, item.filename,
                                   args[p].find, args[p].repl)
                  ELSE [ok |-> TRUE, data |-> data, filename |-> item.filename]
           e == [name |-> res.filename, data |-> res.data, meta |-> item.meta]
       IN  /\ call' = IF readable /\ matched
                      THEN [made |-> TRUE, variant |-> obj[p].variant,
                            find |-> args[p].find, repl |-> args[p].repl,
                            data |-> data, filename |-> item.filename,
                            ok |-> res.ok, out_data |-> res.data,
                            out_name |-> res.filename]
                      ELSE call
           /\ IF readable /\ res.ok
              THEN /\ Commit(fs,
                             [ino EXCEPT ![zout[p].h] =
                                WriteStr(@, zout[p].written, e)],
                             [zin EXCEPT ![p].items[k].filename = res.filename],
                             [zout EXCEPT ![p].written = Append(@, e)])
                   /\ idx' = [idx EXCEPT ![p] = k]
                   /\ UNCHANGED <<pc, err>>
              ELSE /\ Commit(fs,
                             [ino EXCEPT ![zout[p].h] =
                                CloseWrite(@, zout[p].written)],
                             [zin EXCEPT ![p] = NoZin],
                             [zout EXCEPT ![p] = NoZout])
                   /\ Raise(p, IF readable THEN "UnicodeDecodeError"
                                           ELSE "BadZipFile")
    /\ UNCHANGED <<given, obj, args, orig, swap, run, overlap>>

\* A loop exit that goes on to the swap with zout still open.
CloseZoutLate(p) ==
    /\ pc[p] = "loop"
    /\ idx[p] = Len(zin[p].items)
    /\ Commit(fs, ino, [zin EXCEPT ![p] = NoZin], [zout EXCEPT ![p] = NoZout])
    /\ pc' = [pc EXCEPT ![p] = "remove"]
    /\ UNCHANGED <<given, obj, args, idx, orig, err, swap, run, call, overlap>>

\* The loop is over: leaving the with blocks closes zout, which writes the
\* central directory, and zin (zipfnr.py:57-58).
CloseZout(p) ==
    /\ pc[p] = "loop"
    /\ idx[p] = Len(zin[p].items)
    /\ Commit(fs,
              [ino EXCEPT ![zout[p].h] = CloseWrite(@, zout[p].written)],
              [zin EXCEPT ![p] = NoZin],
              [zout EXCEPT ![p] = NoZout])
    /\ pc' = [pc EXCEPT ![p] = "remove"]
    /\ UNCHANGED <<given, obj, args, idx, orig, err, swap, run, call, overlap>>

\* A clean-up that removes the backup along with the archive.
RemoveBackupToo(p) ==
    /\ pc[p] = "remove"
    /\ swap' = [swap EXCEPT ![p] = @ \cup {"remove"}]
    /\ IF fs["file"] = 0
       THEN /\ Raise(p, "FileNotFoundError")
            /\ UNCHANGED <<fs, ino, zin, zout>>
       ELSE /\ Commit([fs EXCEPT !["file"] = 0, !["bak"] = 0], ino, zin, zout)
            /\ pc' = [pc EXCEPT ![p] = "rename"]
            /\ UNCHANGED <<err, idx>>
    /\ UNCHANGED <<given, obj, args, orig, run, call, overlap>>

\* os.remove(self.file_path) (zipfnr.py:72).
Remove(p) ==
    /\ pc[p] = "remove"
    /\ swap' = [swap EXCEPT ![p] = @ \cup {"remove"}]
    /\ IF fs["file"] = 0
       THEN /\ Raise(p, "FileNotFoundError")
            /\ UNCHANGED <<fs, ino, zin, zout>>
       ELSE /\ Commit([fs EXCEPT !["file"] = 0], ino, zin, zout)
            /\ pc' = [pc EXCEPT ![p] = "rename"]
            /\ UNCHANGED <<err, idx>>
    /\ UNCHANGED <<given, obj, args, orig, run, call, overlap>>

\* A swap that copies the temporary file instead of renaming it.
RenameAsCopy(p) ==
    /\ pc[p] = "rename"
    /\ swap' = [swap EXCEPT ![p] = @ \cup {"rename"}]
    /\ IF fs["tmp"] = 0
       THEN /\ Raise(p, "FileNotFoundError")
            /\ UNCHANGED <<fs, ino, zin, zout>>
       ELSE /\ LET t == Truncated("file")
               IN  Commit(t.fs, Put(t.ino, t.i, At("tmp")), zin, zout)
            /\ pc' = [pc EXCEPT ![p] = "done"]
            /\ UNCHANGED <<err, idx>>
    /\ UNCHANGED <<given, obj, args, orig, run, call, overlap>>

\* os.rename(f"{self.file_path}.tmp", self.file_path) (zipfnr.py:73): the
\* temporary file takes the archive's name, over a file that has it.
Rename(p) ==
    /\ pc[p] = "rename"
    /\ swap' = [swap EXCEPT ![p] = @ \cup {"rename"}]
    /\ IF fs["tmp"] = 0
       THEN /\ Raise(p, "FileNotFoundError")
            /\ UNCHANGED <<fs, ino, zin, zout>>
       ELSE /\ Commit([fs EXCEPT !["file"] = fs["tmp"], !["tmp"] = 0],
                      ino, zin, zout)
            /\ pc' = [pc EXCEPT ![p] = "done"]
            /\ UNCHANGED <<err, idx>>
    /\ UNCHANGED <<given, obj, args, orig, run, call, overlap>>

\* ------------------------------------------------------------- the loop, as a function

\* The entry the loop writes for the i-th entry of ents (zipfnr.py:59-67):
\* the item's own name and metadata, and the content zin.read finds under
\* that name.
LoopEntry(ents, i, o, a) ==
    LET items == [k \in 1..Len(ents) |-> [orig_filename |-> ents[k].name]]
        data == ents[NameToInfo(items, ents[i].name)].data
        res == IF EndsWith(ents[i].name, o.target_ext)
               THEN ProcessItem(o.variant, data, ents[i].name, a.find, a.repl)
               ELSE [ok |-> TRUE, data |-> data, filename |-> ents[i].name]
    IN  [ok |-> res.ok,
         e |-> [name |-> res.filename, data |-> res.data,
                meta |-> ents[i].meta]]

\* The first turn of the loop that raises, 0 when none does.
LoopRaisesAt(ents, o, a) ==
    LET bad == { i \in 1..Len(ents) : ~LoopEntry(ents, i, o, a).ok }
    IN  IF bad = {} THEN 0
        ELSE CHOOSE i \in bad : \A j \in bad : i <= j

\* The entries the loop has written when it has done n turns.
LoopOutput(ents, n, o, a) == [i \in 1..n |-> LoopEntry(ents, i, o, a).e]

\* process_zip from call to return or exception, when no I/O error comes
\* from outside and no other call touches the files: what the three files
\* hold afterwards, and how the call ended.
ProcessZip(st, o, a) ==
    IF st.file.kind = "absent"
    THEN [file |-> st.file, bak |-> st.bak, tmp |-> st.tmp,
          result |-> "failed"]
    ELSE IF st.file.kind # "zip"
    THEN [file |-> st.file, bak |-> st.file, tmp |-> st.tmp,
          result |-> "failed"]
    ELSE LET ents == st.file.ents
             k == LoopRaisesAt(ents, o, a)
         IN  IF k > 0
             THEN [file |-> st.file, bak |-> st.file,
                   tmp |-> Zip(LoopOutput(ents, k - 1, o, a)),
                   result |-> "failed"]
             ELSE [file |-> Zip(LoopOutput(ents, Len(ents), o, a)),
                   bak |-> st.file, tmp |-> Absent, result |-> "done"]

\* ------------------------------------------------------------- I/O errors

\* shutil.copy raises: before the backup is opened for writing, or
\* (partial) with the backup created or emptied and only partly written.
BackupFails(p) ==
    /\ pc[p] = "backup"
    /\ fs["file"] # 0
    /\ \E partial \in BOOLEAN :
         IF partial
         THEN LET t == Truncated("bak")
              IN  Commit(t.fs, Put(t.ino, t.i, Garbled), zin, zout)
         ELSE UNCHANGED <<fs, ino, zin, zout>>
    /\ Raise(p, "OSError")
    /\ UNCHANGED <<given, obj, args, orig, swap, run, call, overlap>>

\* The archive cannot be opened for reading.
OpenZinFails(p) ==
    /\ pc[p] = "open"
    /\ fs["file"] # 0
    /\ Raise(p, "OSError")
    /\ UNCHANGED <<given, fs, ino, zin, zout, obj, args, orig, swap, run, call,
                   overlap>>

\* The temporary file cannot be opened for writing; zin is closed on the
\* way out.
OpenZoutFails(p) ==
    /\ pc[p] = "openout"
    /\ Commit(fs, ino, [zin EXCEPT ![p] = NoZin], zout)
    /\ Raise(p, "OSError")
    /\ UNCHANGED <<given, obj, args, orig, swap, run, call, overlap>>

\* An entry cannot be read, or cannot be written: zout is closed on the way
\* out, which completes the temporary archive with the entries it has, or
\* (gone) fails in turn and leaves bytes that are no archive.
ItemFails(p) ==
    /\ pc[p] = "loop"
    /\ idx[p] < Len(zin[p].items)
    /\ \E gone \in BOOLEAN :
         Commit(fs,
                [ino EXCEPT ![zout[p].h] =
                   IF gone THEN Garbled ELSE CloseWrite(@, zout[p].written)],
                [zin EXCEPT ![p] = NoZin],
                [zout EXCEPT ![p] = NoZout])
    /\ Raise(p, "OSError")
    /\ UNCHANGED <<given, obj, args, orig, swap, run, call, overlap>>

\* The central directory cannot be written.
CloseFails(p) ==
    /\ pc[p] = "loop"
    /\ idx[p] = Len(zin[p].items)
    /\ Commit(fs, [ino EXCEPT ![zout[p].h] = Garbled],
              [zin EXCEPT ![p] = NoZin], [zout EXCEPT ![p] = NoZout])
    /\ Raise(p, "OSError")
    /\ UNCHANGED <<given, obj, args, orig, swap, run, call, overlap>>

\* os.remove raises: the archive keeps its name.
RemoveFails(p) ==
    /\ pc[p] = "remove"
    /\ fs["file"] # 0
    /\ swap' = [swap EXCEPT ![p] = @ \cup {"remove"}]
    /\ Raise(p, "OSError")
    /\ UNCHANGED <<given, fs, ino, zin, zout, obj, args, orig, run, call, overlap>>

\* os.rename raises: the temporary file keeps its name.
RenameFails(p) ==
    /\ pc[p] = "rename"
    /\ fs["tmp"] # 0
    /\ swap' = [swap EXCEPT ![p] = @ \cup {"rename"}]
    /\ Raise(p, "OSError")
    /\ UNCHANGED <<given, fs, ino, zin, zout, obj, args, orig, run, call, overlap>>

\* ------------------------------------------------------------- one caller

InitProcs ==
    /\ pc = [p \in Procs |-> "idle"]
    /\ args = [p \in Procs |-> [find |-> <<>>, repl |-> <<>>]]
    /\ zin = [p \in Procs |-> NoZin]
    /\ zout = [p \in Procs |-> NoZout]
    /\ idx = [p \in Procs |-> 0]
    /\ orig = [p \in Procs |-> Absent]
    /\ err = [p \in Procs |-> NoError]
    /\ swap = [p \in Procs |-> {}]
    /\ run = [p \in Procs |-> 0]
    /\ call = NoCall
    /\ overlap = FALSE

\* An archive at file_path, no backup and no temporary file yet, and one
\* processor object constructed for it (zipfnr.py:29-39, 156-159).
Init ==
    /\ fs = [x \in Paths |-> IF x = "file" THEN 1 ELSE 0]
    /\ given \in Archives
    /\ ino = [i \in {1} |-> Zip(given)]
    /\ \E v \in Variants, x \in Exts :
         obj = [p \in Procs |-> [variant |-> v, target_ext |-> x]]
    /\ InitProcs

\* Processor 1 is called, call after call; any step may meet an I/O error.
Next ==
    \/ Call(1)
    \/ Backup(1)
    \/ OpenZin(1)
    \/ OpenZout(1)
    \/ Item(1)
    \/ CloseZout(1)
    \/ Remove(1)
    \/ Rename(1)
    \/ BackupFails(1)
    \/ OpenZinFails(1)
    \/ OpenZoutFails(1)
    \/ ItemFails(1)
    \/ CloseFails(1)
    \/ RemoveFails(1)
    \/ RenameFails(1)

Spec == Init /\ [][Next]_vars

\* ------------------------------------------------------------- two callers

\* (find_string, replace_string) of the two concurrent callers: ("a", "b")
\* for the first, ("aa", "a") for the second.
ConcFindReplace == << << <<97>>, <<98>> >>, << <<97, 97>>, <<97>> >> >>

\* Two processor objects for the same file_path, of either class, with the
\* target extension ".t".
InitConc ==
    /\ fs = [x \in Paths |-> IF x = "file" THEN 1 ELSE 0]
    /\ given \in Archives
    /\ ino = [i \in {1} |-> Zip(given)]
    /\ obj \in [Procs -> { [variant |-> v, target_ext |-> <<46, 116>>] :
                             v \in Variants }]
    /\ InitProcs

\* Each processor is called once.
CallOnce(p) ==
    /\ pc[p] = "idle"
    /\ run[p] = 0
    /\ BeginCall(p, ConcFindReplace[p])

\* The two calls take their steps in any order; a copy, the opening of an
\* archive, one turn of the loop, the closing, the remove and the rename are
\* each one step.  No I/O error comes from outside: a call fails only on
\* what the other call did to the files.
NextConc ==
    \E p \in Procs :
        \/ CallOnce(p)
        \/ Backup(p)
        \/ OpenZin(p)
        \/ OpenZout(p)
        \/ Item(p)
        \/ CloseZout(p)
        \/ Remove(p)
        \/ Rename(p)

SpecConc == InitConc /\ [][NextConc]_vars

\* ------------------------------------------------------------- properties

\* The archive before the call at hand and the archive after it.
In == orig[1].ents
Out == At("file").ents

Matched(e) == EndsWith(e.name, obj[1].target_ext)

\* What the files hold when the call at hand, undisturbed, is through.
Expected ==
    ProcessZip([file |-> orig[1], bak |-> Absent, tmp |-> Absent],
               obj[1], args[1])

\* s with r before each of its elements and once at the end.
Interleaved(s, r) ==
    LET m == Len(r)
    IN  [i \in 1..(Len(s) * (m + 1) + m) |->
           IF (i - 1) % (m + 1) < m
           THEN r[((i - 1) % (m + 1)) + 1]
           ELSE s[((i - 1) \div (m + 1)) + 1]]

\* C1: a call that fails before the swap step (in the backup copy, in
\* opening either archive, or in the loop) has called neither os.remove nor
\* os.rename and leaves at file_path what was there before the call; a
\* backup made by the call is in place and holds the original, and a
\* temporary file the call created is still there.
C1_FailBeforeSwapLeavesOriginal ==
    (pc[1] = "failed" /\ err[1].at \in {"backup", "open", "openout", "loop"})
        => /\ swap[1] = {}
           /\ At("file") = orig[1]
           /\ (err[1].at # "backup" => At("bak") = orig[1])
           /\ (err[1].at = "loop" => fs["tmp"] # 0)

\* C1 case: the content variant met an entry that is not UTF-8 after it had
\* written an entry; the original stands, with its backup and the debris.
C1_Witness ==
    /\ pc[1] = "failed"
    /\ err[1] = [kind |-> "UnicodeDecodeError", at |-> "loop"]
    /\ At("file") = orig[1]
    /\ At("bak") = orig[1]
    /\ At("tmp").kind = "zip"
    /\ Len(At("tmp").ents) = 1
    /\ Len(In) = 2

\* C2: after a successful call every entry whose name does not end with the
\* target extension is in the output, at its position, with its name, its
\* own content and its metadata.
C2_UnmatchedPassThrough ==
    pc[1] = "done"
        => \A i \in 1..Len(In) :
             ~Matched(In[i]) => (i <= Len(Out) /\ Out[i] = In[i])

\* C3: content variant, non-empty find string: after a successful call
\* every entry whose name ends with the target extension holds its own
\* content with every occurrence of the find string, scanned left to right
\* without overlap, replaced, under its own name.
C3_ContentReplacedInOwnContent ==
    (pc[1] = "done" /\ obj[1].variant = "text" /\ args[1].find # <<>>)
        => \A i \in 1..Len(In) :
             (Matched(In[i]) /\ Utf8Valid(In[i].data))
                => /\ i <= Len(Out)
                   /\ Out[i].name = In[i].name
                   /\ Out[i].data =
                        Utf8Encode(ReplaceScan(Utf8Decode(In[i].data),
                                               args[1].find, args[1].repl))

\* C4: filename variant, non-empty find string: after a successful call
\* every entry whose name ended with the target extension has its whole
\* name with every occurrence of the find string replaced, and its own
\* content, byte for byte.
C4_NameReplacedContentKept ==
    (pc[1] = "done" /\ obj[1].variant = "filename" /\ args[1].find # <<>>)
        => \A i \in 1..Len(In) :
             Matched(In[i])
                => /\ i <= Len(Out)
                   /\ Out[i].name =
                        ReplaceScan(In[i].name, args[1].find, args[1].repl)
                   /\ Out[i].data = In[i].data

\* What process_zip is to make of one entry taken by itself.
EntryResult(e) ==
    IF Matched(e)
    THEN LET res == ProcessItem(obj[1].variant, e.data, e.name, args[1].find,
                                args[1].repl)
         IN  [name |-> res.filename, data |-> res.data, meta |-> e.meta]
    ELSE e

\* C5: after a successful call the output has as many entries as the input
\* and its i-th entry is the one made from the i-th input entry.
C5_SameCountSameOrder ==
    pc[1] = "done"
        => /\ Len(Out) = Len(In)
           /\ \A i \in 1..Len(In) :
                (Matched(In[i]) /\ obj[1].variant = "text"
                    => Utf8Valid(In[i].data))
                  => Out[i] = EntryResult(In[i])

\* C6: from the end of the backup step to the end of the call the backup
\* holds the archive as it was when the call began, whatever an earlier
\* backup held; no step removes the backup, and no step puts at file_path
\* anything but the temporary file.
C6_BackupHoldsOriginal ==
    /\ [](((pc[1] \in {"open", "openout", "loop", "remove", "rename", "done"})
            \/ (pc[1] = "failed" /\ err[1].at # "backup"))
           => At("bak") = orig[1])
    /\ [][/\ fs["bak"] # 0 => fs'["bak"] # 0
          /\ (fs'["file"] # fs["file"] /\ fs'["file"] # 0)
                => (fs'["file"] = fs["tmp"] /\ pc[1] = "rename")]_vars

\* C6 case: a second successful call; the backup is the output of the
\* first call, no longer the archive as first given.
C6_Witness ==
    /\ run[1] = 2
    /\ pc[1] = "done"
    /\ At("bak") = orig[1]
    /\ At("bak").kind = "zip"
    /\ At("bak") # Zip(given)
    /\ At("file") # At("bak")

\* The files and the calls' results when both calls are over.
Observed ==
    [file |-> At("file"), bak |-> At("bak"), tmp |-> At("tmp"),
     result |-> pc]

\* The same after the two calls made one after the other.
Serial(first, second) ==
    LET r1 == ProcessZip([file |-> Zip(given), bak |-> Absent,
                          tmp |-> Absent], obj[first], args[first])
        r2 == ProcessZip(r1, obj[second], args[second])
    IN  [file |-> r2.file, bak |-> r2.bak, tmp |-> r2.tmp,
         result |-> [p \in Procs |->
                       IF p = first THEN r1.result ELSE r2.result]]

BothOver == \A p \in Procs : pc[p] \in {"done", "failed"}

\* C7: two calls on the same path end in a state that neither serial order
\* of the two reaches only when their steps interleaved (and C7_Witness:
\* such interleavings exist).
C7_NonSerialOnlyWhenInterleaved ==
    (BothOver /\ Observed \notin {Serial(1, 2), Serial(2, 1)}) => overlap

\* C7 case: both calls returned without an exception, their steps
\* interleaved, and the archive holds the transformation of one call only:
\* the other call's is lost, and the archive is the result of neither
\* serial order.
C7_Witness ==
    /\ overlap
    /\ \A p \in Procs : pc[p] = "done"
    /\ Observed \notin {Serial(1, 2), Serial(2, 1)}
    /\ At("file") \notin {Serial(1, 2).file, Serial(2, 1).file}
    /\ \E p \in Procs :
         At("file") = ProcessZip([file |-> Zip(given), bak |-> Absent,
                                  tmp |-> Absent], obj[p], args[p]).file

\* C8: during and after a call file_path names the complete original, no
\* file, or the complete output, never a partly written archive: the
\* temporary archive is complete and closed when os.remove is reached, and
\* os.rename runs only after os.remove has taken the original away.
C8_NoPartialArchiveAtPath ==
    pc[1] # "idle"
        => LET x == Expected
           IN  /\ \/ At("file") = orig[1]
                  \/ At("file") = Absent
                  \/ (x.result = "done" /\ At("file") = x.file)
               /\ pc[1] = "remove"
                    => (At("file") = orig[1] /\ At("tmp") = x.file)
               /\ pc[1] = "rename"
                    => (At("file") = Absent /\ At("tmp") = x.file)
               /\ "rename" \in swap[1] => "remove" \in swap[1]
               /\ "remove" \in swap[1] => x.result = "done"

\* C8 case: between os.remove and os.rename, with an output of two entries
\* that differs from the original.
C8_Witness ==
    /\ pc[1] = "rename"
    /\ At("file") = Absent
    /\ At("tmp").kind = "zip"
    /\ Len(At("tmp").ents) = 2
    /\ At("tmp") # orig[1]

\* C9: when os.remove has succeeded and os.rename has failed or not run
\* yet, there is no file at file_path, the temporary file holds the
\* complete output and the backup the complete original; in every state of
\* a call the original or the complete output is at file_path, at the
\* backup path or at the temporary path; nothing is restored.
C9_OldOrNewRecoverable ==
    pc[1] # "idle"
        => LET x == Expected
           IN  /\ (pc[1] = "rename"
                     \/ (pc[1] = "failed" /\ err[1].at = "rename"))
                    => /\ At("file") = Absent
                       /\ At("tmp") = x.file
                       /\ x.result = "done"
                       /\ At("bak") = orig[1]
               /\ \/ orig[1] \in {At("file"), At("bak")}
                  \/ (x.result = "done" /\ x.file \in {At("file"), At("tmp")})

\* C9 case: os.rename failed after os.remove succeeded.
C9_Witness ==
    /\ pc[1] = "failed"
    /\ err[1].at = "rename"
    /\ At("file") = Absent
    /\ At("tmp").kind = "zip"
    /\ At("tmp") # orig[1]
    /\ At("bak") = orig[1]
    /\ Len(In) = 2

\* C10 as claimed: with an empty find string process_item returns the
\* content (content variant) and the name (filename variant) unchanged.
C10_EmptyFindIsNoop ==
    (call.made /\ call.ok /\ call.find = <<>>)
        => (call.out_data = call.data /\ call.out_name = call.filename)

\* C10 amended: with an empty find string process_item puts the replace
\* string before every character and once at the end: of the decoded
\* content in the content variant (the name unchanged), of the name in the
\* filename variant (the content unchanged).
C10_EmptyFindInserts ==
    (call.made /\ call.ok /\ call.find = <<>>)
        => IF call.variant = "text"
           THEN /\ call.out_name = call.filename
                /\ call.out_data =
                     Utf8Encode(Interleaved(Utf8Decode(call.data), call.repl))
           ELSE /\ call.out_data = call.data
                /\ call.out_name = Interleaved(call.filename, call.repl)

\* C10 case: the content variant, empty find string, replace string "b", on
\* the content e-acute, a: the result is b, e-acute, b, a, b.
C10_Witness ==
    /\ call.made
    /\ call.variant = "text"
    /\ call.find = <<>>
    /\ call.repl = <<98>>
    /\ call.data = <<195, 169, 97>>
    /\ call.out_data = <<98, 195, 169, 98, 97, 98>>

=============================================================================
